---- MODULE Spec2Model ----
(***************************************************************************)
(* Model of ocr_backend.py: the /convert-pdf-to-word endpoint and its two  *)
(* conversion strategies, convert_without_ocr and convert_with_ocr.        *)
(*                                                                         *)
(* A Python string whose characters the code or its libraries inspect or   *)
(* store (file names, page texts, messages, paragraph texts) is the        *)
(* sequence of its Unicode code points: "a.pdf" is <<97, 46, 112, 100,     *)
(* 102>>.  A string the code only compares as a whole (the mode, the       *)
(* download name, the engine path) is a TLA+ string.  A docx Document is   *)
(* the sequence of blocks the code appended to it: a heading, paragraphs   *)
(* and page breaks, a paragraph holding the content python-docx stored.    *)
(***************************************************************************)
EXTENDS Integers, Sequences, FiniteSets, TLC

VARIABLES
    reqs,           \* the requests in flight (fixed for a behaviour)
    environ,        \* os.environ: whether RENDER is set
    tesseract_cmd,  \* pytesseract.pytesseract.tesseract_cmd (process-wide)
    request,        \* request[r]: the file part, the form and the libraries' answers
    pc,             \* pc[r]: the handler's position
    strategy,       \* strategy[r]: which convert_* function the handler called
    doc,            \* doc[s]: the blocks of the Document object in slot s
    page_num,       \* page_num[r]: pages whose loop iteration completed
    resource,       \* resource[r]: the fitz document / the rasterized images
    exc,            \* exc[r]: the exception that left the strategy, if one did
    response        \* response[r]: what the handler returned

vars == <<reqs, environ, tesseract_cmd, request, pc, strategy, doc, page_num,
          resource, exc, response>>

-----------------------------------------------------------------------------
(* Bounds and sample inputs *)

MaxPages == 3

\* The 29 characters str.strip() removes: U+0009..U+000D, U+001C..U+0020,
\* U+0085, U+00A0, U+1680, U+2000..U+200A, U+2028, U+2029, U+202F, U+205F,
\* U+3000
Whitespace ==
    (9..13) \cup (28..32) \cup {133, 160, 5760} \cup (8192..8202)
        \cup {8232, 8233, 8239, 8287, 12288}

\* "", " \n" U+00A0, "\f", " a\n", "\ta\f"
PageTexts ==
    { <<>>, <<32, 10, 160>>, <<12>>, <<32, 97, 10>>, <<9, 97, 12>> }

\* "bad page"
PageErrors == { <<98, 97, 100, 32, 112, 97, 103, 101>> }

\* "cannot open broken document", "broken" U+0000
OpenErrors ==
    { <<99, 97, 110, 110, 111, 116, 32, 111, 112, 101, 110, 32, 98, 114, 111, 107, 101,
          110, 32, 100, 111, 99, 117, 109, 101, 110, 116>>,
      <<98, 114, 111, 107, 101, 110, 0>> }

\* "cannot write buffer"
SaveErrors == { <<99, 97, 110, 110, 111, 116, 32, 119, 114, 105, 116, 101, 32, 98, 117,
      102, 102, 101, 114>> }

\* "", "a.pdf", U+00C9 ".PdF", "a.txt", "apdf", "a." U+FF30 U+FF24 U+FF26
\* (full-width PDF)
Filenames ==
    { <<>>,
      <<97, 46, 112, 100, 102>>,
      <<201, 46, 80, 100, 70>>,
      <<97, 46, 116, 120, 116>>,
      <<97, 112, 100, 102>>,
      <<97, 46, 65328, 65316, 65318>> }

Modes ==
    { [present |-> FALSE, value |-> ""],
      [present |-> TRUE, value |-> "ocr"],
      [present |-> TRUE, value |-> "no_ocr"],
      [present |-> TRUE, value |-> ""],
      [present |-> TRUE, value |-> "OCR"] }

\* What one loop iteration's library calls (load_page and get_text, or
\* convert and image_to_string) do for a page: return a text or raise.
PageOutcomes ==
    [raises : {FALSE}, text : PageTexts, msg : {<<>>}]
        \cup [raises : {TRUE}, text : {<<>>}, msg : PageErrors]

PagesUpTo(n) == UNION { [1..k -> PageOutcomes] : k \in 1..n }

\* The uploaded bytes, described by their length class and by what the page
\* source (fitz.open / convert_from_bytes) does with them.
EmptyBytes == [size |-> 0, opens |-> FALSE, openMsg |-> <<>>, pages |-> <<>>]

Contents(n) ==
    {EmptyBytes}
        \cup [size : {1}, opens : {FALSE}, openMsg : OpenErrors, pages : {<<>>}]
        \cup [size : {1}, opens : {TRUE}, openMsg : {<<>>}, pages : PagesUpTo(n)]

NoFile == [present |-> FALSE, filename |-> <<>>, content |-> EmptyBytes]

Files(n) == {NoFile} \cup [present : {TRUE}, filename : Filenames, content : Contents(n)]

Requests(n) ==
    [file : Files(n), mode : Modes, saveFails : BOOLEAN, saveMsg : SaveErrors]

-----------------------------------------------------------------------------
(* Pure helpers: the string and docx operations the code uses *)

IsSpace(c) == c \in Whitespace

RECURSIVE lstrip(_)
lstrip(s) ==
    IF s = <<>> THEN <<>>
    ELSE IF IsSpace(Head(s)) THEN lstrip(Tail(s)) ELSE s

RECURSIVE rstrip(_)
rstrip(s) ==
    IF s = <<>> THEN <<>>
    ELSE IF IsSpace(s[Len(s)]) THEN rstrip(SubSeq(s, 1, Len(s) - 1)) ELSE s

\* str.strip(): leading and trailing whitespace removed
strip(s) == rstrip(lstrip(s))

\* str.lower() on single characters, as runs <<first, last, step, delta>>:
\* the code points first, first + step, ..., last lower to themselves + delta
\* (Unicode 14.0.0 simple lower-case mappings, 1432 code points).
LowerRuns ==
    {
      <<65, 90, 1, 32>>, <<192, 214, 1, 32>>, <<216, 222, 1, 32>>, <<256, 302, 2,
      1>>, <<306, 310, 2, 1>>, <<313, 327, 2, 1>>, <<330, 374, 2, 1>>, <<376, 376,
      1, -121>>, <<377, 381, 2, 1>>, <<385, 385, 1, 210>>, <<386, 388, 2, 1>>,
      <<390, 390, 1, 206>>, <<391, 391, 1, 1>>, <<393, 394, 1, 205>>, <<395, 395, 1,
      1>>, <<398, 398, 1, 79>>, <<399, 399, 1, 202>>, <<400, 400, 1, 203>>, <<401,
      401, 1, 1>>, <<403, 403, 1, 205>>, <<404, 404, 1, 207>>, <<406, 406, 1, 211>>,
      <<407, 407, 1, 209>>, <<408, 408, 1, 1>>, <<412, 412, 1, 211>>, <<413, 413, 1,
      213>>, <<415, 415, 1, 214>>, <<416, 420, 2, 1>>, <<422, 422, 1, 218>>, <<423,
      423, 1, 1>>, <<425, 425, 1, 218>>, <<428, 428, 1, 1>>, <<430, 430, 1, 218>>,
      <<431, 431, 1, 1>>, <<433, 434, 1, 217>>, <<435, 437, 2, 1>>, <<439, 439, 1,
      219>>, <<440, 440, 1, 1>>, <<444, 444, 1, 1>>, <<452, 452, 1, 2>>, <<453, 453,
      1, 1>>, <<455, 455, 1, 2>>, <<456, 456, 1, 1>>, <<458, 458, 1, 2>>, <<459,
      475, 2, 1>>, <<478, 494, 2, 1>>, <<497, 497, 1, 2>>, <<498, 500, 2, 1>>,
      <<502, 502, 1, -97>>, <<503, 503, 1, -56>>, <<504, 542, 2, 1>>, <<544, 544, 1,
      -130>>, <<546, 562, 2, 1>>, <<570, 570, 1, 10795>>, <<571, 571, 1, 1>>, <<573,
      573, 1, -163>>, <<574, 574, 1, 10792>>, <<577, 577, 1, 1>>, <<579, 579, 1,
      -195>>, <<580, 580, 1, 69>>, <<581, 581, 1, 71>>, <<582, 590, 2, 1>>, <<880,
      882, 2, 1>>, <<886, 886, 1, 1>>, <<895, 895, 1, 116>>, <<902, 902, 1, 38>>,
      <<904, 906, 1, 37>>, <<908, 908, 1, 64>>, <<910, 911, 1, 63>>, <<913, 929, 1,
      32>>, <<931, 939, 1, 32>>, <<975, 975, 1, 8>>, <<984, 1006, 2, 1>>, <<1012,
      1012, 1, -60>>, <<1015, 1015, 1, 1>>, <<1017, 1017, 1, -7>>, <<1018, 1018, 1,
      1>>, <<1021, 1023, 1, -130>>, <<1024, 1039, 1, 80>>, <<1040, 1071, 1, 32>>,
      <<1120, 1152, 2, 1>>, <<1162, 1214, 2, 1>>, <<1216, 1216, 1, 15>>, <<1217,
      1229, 2, 1>>, <<1232, 1326, 2, 1>>, <<1329, 1366, 1, 48>>, <<4256, 4293, 1,
      7264>>, <<4295, 4295, 1, 7264>>, <<4301, 4301, 1, 7264>>, <<5024, 5103, 1,
      38864>>, <<5104, 5109, 1, 8>>, <<7312, 7354, 1, -3008>>, <<7357, 7359, 1,
      -3008>>, <<7680, 7828, 2, 1>>, <<7838, 7838, 1, -7615>>, <<7840, 7934, 2, 1>>,
      <<7944, 7951, 1, -8>>, <<7960, 7965, 1, -8>>, <<7976, 7983, 1, -8>>, <<7992,
      7999, 1, -8>>, <<8008, 8013, 1, -8>>, <<8025, 8031, 2, -8>>, <<8040, 8047, 1,
      -8>>, <<8072, 8079, 1, -8>>, <<8088, 8095, 1, -8>>, <<8104, 8111, 1, -8>>,
      <<8120, 8121, 1, -8>>, <<8122, 8123, 1, -74>>, <<8124, 8124, 1, -9>>, <<8136,
      8139, 1, -86>>, <<8140, 8140, 1, -9>>, <<8152, 8153, 1, -8>>, <<8154, 8155, 1,
      -100>>, <<8168, 8169, 1, -8>>, <<8170, 8171, 1, -112>>, <<8172, 8172, 1, -7>>,
      <<8184, 8185, 1, -128>>, <<8186, 8187, 1, -126>>, <<8188, 8188, 1, -9>>,
      <<8486, 8486, 1, -7517>>, <<8490, 8490, 1, -8383>>, <<8491, 8491, 1, -8262>>,
      <<8498, 8498, 1, 28>>, <<8544, 8559, 1, 16>>, <<8579, 8579, 1, 1>>, <<9398,
      9423, 1, 26>>, <<11264, 11311, 1, 48>>, <<11360, 11360, 1, 1>>, <<11362,
      11362, 1, -10743>>, <<11363, 11363, 1, -3814>>, <<11364, 11364, 1, -10727>>,
      <<11367, 11371, 2, 1>>, <<11373, 11373, 1, -10780>>, <<11374, 11374, 1,
      -10749>>, <<11375, 11375, 1, -10783>>, <<11376, 11376, 1, -10782>>, <<11378,
      11378, 1, 1>>, <<11381, 11381, 1, 1>>, <<11390, 11391, 1, -10815>>, <<11392,
      11490, 2, 1>>, <<11499, 11501, 2, 1>>, <<11506, 11506, 1, 1>>, <<42560, 42604,
      2, 1>>, <<42624, 42650, 2, 1>>, <<42786, 42798, 2, 1>>, <<42802, 42862, 2,
      1>>, <<42873, 42875, 2, 1>>, <<42877, 42877, 1, -35332>>, <<42878, 42886, 2,
      1>>, <<42891, 42891, 1, 1>>, <<42893, 42893, 1, -42280>>, <<42896, 42898, 2,
      1>>, <<42902, 42920, 2, 1>>, <<42922, 42922, 1, -42308>>, <<42923, 42923, 1,
      -42319>>, <<42924, 42924, 1, -42315>>, <<42925, 42925, 1, -42305>>, <<42926,
      42926, 1, -42308>>, <<42928, 42928, 1, -42258>>, <<42929, 42929, 1, -42282>>,
      <<42930, 42930, 1, -42261>>, <<42931, 42931, 1, 928>>, <<42932, 42946, 2, 1>>,
      <<42948, 42948, 1, -48>>, <<42949, 42949, 1, -42307>>, <<42950, 42950, 1,
      -35384>>, <<42951, 42953, 2, 1>>, <<42960, 42960, 1, 1>>, <<42966, 42968, 2,
      1>>, <<42997, 42997, 1, 1>>, <<65313, 65338, 1, 32>>, <<66560, 66599, 1, 40>>,
      <<66736, 66771, 1, 40>>, <<66928, 66938, 1, 39>>, <<66940, 66954, 1, 39>>,
      <<66956, 66962, 1, 39>>, <<66964, 66965, 1, 39>>, <<68736, 68786, 1, 64>>,
      <<71840, 71871, 1, 32>>, <<93760, 93791, 1, 32>>, <<125184, 125217, 1, 34>>
    }

\* The code points of the Unicode property Case_Ignorable
CaseIgnorable ==
    UNION {
      39..39, 46..46, 58..58, 94..94, 96..96, 168..168, 173..173, 175..175,
      180..180, 183..184, 688..879, 884..885, 890..890, 900..901, 903..903,
      1155..1161, 1369..1369, 1375..1375, 1425..1469, 1471..1471, 1473..1474,
      1476..1477, 1479..1479, 1524..1524, 1536..1541, 1552..1562, 1564..1564,
      1600..1600, 1611..1631, 1648..1648, 1750..1757, 1759..1768, 1770..1773,
      1807..1807, 1809..1809, 1840..1866, 1958..1968, 2027..2037, 2042..2042,
      2045..2045, 2070..2093, 2137..2139, 2184..2184, 2192..2193, 2200..2207,
      2249..2306, 2362..2362, 2364..2364, 2369..2376, 2381..2381, 2385..2391,
      2402..2403, 2417..2417, 2433..2433, 2492..2492, 2497..2500, 2509..2509,
      2530..2531, 2558..2558, 2561..2562, 2620..2620, 2625..2626, 2631..2632,
      2635..2637, 2641..2641, 2672..2673, 2677..2677, 2689..2690, 2748..2748,
      2753..2757, 2759..2760, 2765..2765, 2786..2787, 2810..2815, 2817..2817,
      2876..2876, 2879..2879, 2881..2884, 2893..2893, 2901..2902, 2914..2915,
      2946..2946, 3008..3008, 3021..3021, 3072..3072, 3076..3076, 3132..3132,
      3134..3136, 3142..3144, 3146..3149, 3157..3158, 3170..3171, 3201..3201,
      3260..3260, 3263..3263, 3270..3270, 3276..3277, 3298..3299, 3328..3329,
      3387..3388, 3393..3396, 3405..3405, 3426..3427, 3457..3457, 3530..3530,
      3538..3540, 3542..3542, 3633..3633, 3636..3642, 3654..3662, 3761..3761,
      3764..3772, 3782..3782, 3784..3789, 3864..3865, 3893..3893, 3895..3895,
      3897..3897, 3953..3966, 3968..3972, 3974..3975, 3981..3991, 3993..4028,
      4038..4038, 4141..4144, 4146..4151, 4153..4154, 4157..4158, 4184..4185,
      4190..4192, 4209..4212, 4226..4226, 4229..4230, 4237..4237, 4253..4253,
      4348..4348, 4957..4959, 5906..5908, 5938..5939, 5970..5971, 6002..6003,
      6068..6069, 6071..6077, 6086..6086, 6089..6099, 6103..6103, 6109..6109,
      6155..6159, 6211..6211, 6277..6278, 6313..6313, 6432..6434, 6439..6440,
      6450..6450, 6457..6459, 6679..6680, 6683..6683, 6742..6742, 6744..6750,
      6752..6752, 6754..6754, 6757..6764, 6771..6780, 6783..6783, 6823..6823,
      6832..6862, 6912..6915, 6964..6964, 6966..6970, 6972..6972, 6978..6978,
      7019..7027, 7040..7041, 7074..7077, 7080..7081, 7083..7085, 7142..7142,
      7144..7145, 7149..7149, 7151..7153, 7212..7219, 7222..7223, 7288..7293,
      7376..7378, 7380..7392, 7394..7400, 7405..7405, 7412..7412, 7416..7417,
      7468..7530, 7544..7544, 7579..7679, 8125..8125, 8127..8129, 8141..8143,
      8157..8159, 8173..8175, 8189..8190, 8203..8207, 8216..8217, 8228..8228,
      8231..8231, 8234..8238, 8288..8292, 8294..8303, 8305..8305, 8319..8319,
      8336..8348, 8400..8432, 11388..11389, 11503..11505, 11631..11631,
      11647..11647, 11744..11775, 11823..11823, 12293..12293, 12330..12333,
      12337..12341, 12347..12347, 12441..12446, 12540..12542, 40981..40981,
      42232..42237, 42508..42508, 42607..42610, 42612..42621, 42623..42623,
      42652..42655, 42736..42737, 42752..42785, 42864..42864, 42888..42890,
      42994..42996, 43000..43001, 43010..43010, 43014..43014, 43019..43019,
      43045..43046, 43052..43052, 43204..43205, 43232..43249, 43263..43263,
      43302..43309, 43335..43345, 43392..43394, 43443..43443, 43446..43449,
      43452..43453, 43471..43471, 43493..43494, 43561..43566, 43569..43570,
      43573..43574, 43587..43587, 43596..43596, 43632..43632, 43644..43644,
      43696..43696, 43698..43700, 43703..43704, 43710..43711, 43713..43713,
      43741..43741, 43756..43757, 43763..43764, 43766..43766, 43867..43871,
      43881..43883, 44005..44005, 44008..44008, 44013..44013, 64286..64286,
      64434..64450, 65024..65039, 65043..65043, 65056..65071, 65106..65106,
      65109..65109, 65279..65279, 65287..65287, 65294..65294, 65306..65306,
      65342..65342, 65344..65344, 65392..65392, 65438..65439, 65507..65507,
      65529..65531, 66045..66045, 66272..66272, 66422..66426, 67456..67461,
      67463..67504, 67506..67514, 68097..68099, 68101..68102, 68108..68111,
      68152..68154, 68159..68159, 68325..68326, 68900..68903, 69291..69292,
      69446..69456, 69506..69509, 69633..69633, 69688..69702, 69744..69744,
      69747..69748, 69759..69761, 69811..69814, 69817..69818, 69821..69821,
      69826..69826, 69837..69837, 69888..69890, 69927..69931, 69933..69940,
      70003..70003, 70016..70017, 70070..70078, 70089..70092, 70095..70095,
      70191..70193, 70196..70196, 70198..70199, 70206..70206, 70367..70367,
      70371..70378, 70400..70401, 70459..70460, 70464..70464, 70502..70508,
      70512..70516, 70712..70719, 70722..70724, 70726..70726, 70750..70750,
      70835..70840, 70842..70842, 70847..70848, 70850..70851, 71090..71093,
      71100..71101, 71103..71104, 71132..71133, 71219..71226, 71229..71229,
      71231..71232, 71339..71339, 71341..71341, 71344..71349, 71351..71351,
      71453..71455, 71458..71461, 71463..71467, 71727..71735, 71737..71738,
      71995..71996, 71998..71998, 72003..72003, 72148..72151, 72154..72155,
      72160..72160, 72193..72202, 72243..72248, 72251..72254, 72263..72263,
      72273..72278, 72281..72283, 72330..72342, 72344..72345, 72752..72758,
      72760..72765, 72767..72767, 72850..72871, 72874..72880, 72882..72883,
      72885..72886, 73009..73014, 73018..73018, 73020..73021, 73023..73029,
      73031..73031, 73104..73105, 73109..73109, 73111..73111, 73459..73460,
      78896..78904, 92912..92916, 92976..92982, 92992..92995, 94031..94031,
      94095..94111, 94176..94177, 94179..94180, 110576..110579, 110581..110587,
      110589..110590, 113821..113822, 113824..113827, 118528..118573,
      118576..118598, 119143..119145, 119155..119170, 119173..119179,
      119210..119213, 119362..119364, 121344..121398, 121403..121452,
      121461..121461, 121476..121476, 121499..121503, 121505..121519,
      122880..122886, 122888..122904, 122907..122913, 122915..122916,
      122918..122922, 123184..123197, 123566..123566, 123628..123631,
      125136..125142, 125252..125259, 127995..127999, 917505..917505,
      917536..917631, 917760..917999
    }

\* The code points of the Unicode property Cased
Cased ==
    UNION {
      65..90, 97..122, 170..170, 181..181, 186..186, 192..214, 216..246, 248..442,
      444..447, 452..659, 661..696, 704..705, 736..740, 837..837, 880..883,
      886..887, 890..893, 895..895, 902..902, 904..906, 908..908, 910..929,
      931..1013, 1015..1153, 1162..1327, 1329..1366, 1376..1416, 4256..4293,
      4295..4295, 4301..4301, 4304..4346, 4349..4351, 5024..5109, 5112..5117,
      7296..7304, 7312..7354, 7357..7359, 7424..7615, 7680..7957, 7960..7965,
      7968..8005, 8008..8013, 8016..8023, 8025..8025, 8027..8027, 8029..8029,
      8031..8061, 8064..8116, 8118..8124, 8126..8126, 8130..8132, 8134..8140,
      8144..8147, 8150..8155, 8160..8172, 8178..8180, 8182..8188, 8305..8305,
      8319..8319, 8336..8348, 8450..8450, 8455..8455, 8458..8467, 8469..8469,
      8473..8477, 8484..8484, 8486..8486, 8488..8488, 8490..8493, 8495..8500,
      8505..8505, 8508..8511, 8517..8521, 8526..8526, 8544..8575, 8579..8580,
      9398..9449, 11264..11492, 11499..11502, 11506..11507, 11520..11557,
      11559..11559, 11565..11565, 42560..42605, 42624..42653, 42786..42887,
      42891..42894, 42896..42954, 42960..42961, 42963..42963, 42965..42969,
      42997..42998, 43000..43002, 43824..43866, 43868..43880, 43888..43967,
      64256..64262, 64275..64279, 65313..65338, 65345..65370, 66560..66639,
      66736..66771, 66776..66811, 66928..66938, 66940..66954, 66956..66962,
      66964..66965, 66967..66977, 66979..66993, 66995..67001, 67003..67004,
      67456..67456, 67459..67461, 67463..67504, 67506..67514, 68736..68786,
      68800..68850, 71840..71903, 93760..93823, 119808..119892, 119894..119964,
      119966..119967, 119970..119970, 119973..119974, 119977..119980,
      119982..119993, 119995..119995, 119997..120003, 120005..120069,
      120071..120074, 120077..120084, 120086..120092, 120094..120121,
      120123..120126, 120128..120132, 120134..120134, 120138..120144,
      120146..120485, 120488..120512, 120514..120538, 120540..120570,
      120572..120596, 120598..120628, 120630..120654, 120656..120686,
      120688..120712, 120714..120744, 120746..120770, 120772..120779,
      122624..122633, 122635..122654, 125184..125251, 127280..127305,
      127312..127337, 127344..127369
    }

InRun(c, run) == run[1] <= c /\ c <= run[2] /\ (c - run[1]) % run[3] = 0

\* The code points that have a simple lower-case mapping
LowerDomain == UNION { {c \in run[1]..run[2] : InRun(c, run)} : run \in LowerRuns }

\* str.lower() on one character: U+0130 lowers to two characters, a
\* character of a run to its mapping, any other to itself
LowerChar(c) ==
    IF c = 304 THEN <<105, 775>>
    ELSE IF c \in LowerDomain
         THEN <<c + (CHOOSE run \in LowerRuns : InRun(c, run))[4]>>
         ELSE <<c>>

RECURSIVE SkipBack(_, _)
\* The nearest position at or before j whose character is not case-ignorable; 0 if none
SkipBack(s, j) ==
    IF j = 0 THEN 0
    ELSE IF s[j] \in CaseIgnorable THEN SkipBack(s, j - 1) ELSE j

RECURSIVE SkipForward(_, _)
\* The nearest position at or after j whose character is not case-ignorable; Len(s) + 1 if none
SkipForward(s, j) ==
    IF j > Len(s) THEN j
    ELSE IF s[j] \in CaseIgnorable THEN SkipForward(s, j + 1) ELSE j

\* The capital sigma at position k ends a word: a cased character before it
\* and none after it, case-ignorable characters skipped
FinalSigma(s, k) ==
    LET b == SkipBack(s, k - 1)
        f == SkipForward(s, k + 1)
    IN /\ b > 0 /\ s[b] \in Cased
       /\ (f > Len(s) \/ s[f] \notin Cased)

RECURSIVE LowerFrom(_, _)
LowerFrom(s, k) ==
    IF k > Len(s) THEN <<>>
    ELSE (IF s[k] = 931 THEN <<IF FinalSigma(s, k) THEN 962 ELSE 963>>
          ELSE LowerChar(s[k]))
             \o LowerFrom(s, k + 1)

\* str.lower()
lower(s) == LowerFrom(s, 1)

\* str.endswith(suffix)
endswith(s, suffix) ==
    /\ Len(s) >= Len(suffix)
    /\ SubSeq(s, Len(s) - Len(suffix) + 1, Len(s)) = suffix

\* ".pdf"
DotPdf == <<46, 112, 100, 102>>

\* Mutant of IsPdfName: the suffix compared without its dot
IsPdfNameNoDot(filename) == endswith(lower(filename), <<112, 100, 102>>)

\* not file.filename.lower().endswith('.pdf') is the rejection; this is its negation
IsPdfName(filename) == endswith(lower(filename), DotPdf)

\* request.form.get('mode', 'no_ocr')
FormGet(form, default) == IF form.present THEN form.value ELSE default

\* Mutant of UseOcr: every value but the default selects OCR
UseOcrUnlessDefault(mode) == mode # "no_ocr"

\* if mode == 'ocr'
UseOcr(mode) == mode = "ocr"

\* The characters lxml accepts in element text (XML 1.0 Char), over the
\* Unicode scalar values a decoded text consists of
XmlChar(c) == c \in {9, 10, 13} \/ (c >= 32 /\ c \notin {65534, 65535})

XmlCompatible(s) == \A k \in 1..Len(s) : XmlChar(s[k])

\* str(e) of the ValueError lxml raises on other characters:
\* "All strings must be XML compatible: Unicode or ASCII, no NULL bytes or
\* control characters"
XmlErrorMessage ==
    <<65, 108, 108, 32, 115, 116, 114, 105, 110, 103, 115, 32, 109, 117, 115,
      116, 32, 98, 101, 32, 88, 77, 76, 32, 99, 111, 109, 112, 97, 116, 105,
      98, 108, 101, 58, 32, 85, 110, 105, 99, 111, 100, 101, 32, 111, 114, 32,
      65, 83, 67, 73, 73, 44, 32, 110, 111, 32, 78, 85, 76, 76, 32, 98, 121,
      116, 101, 115, 32, 111, 114, 32, 99, 111, 110, 116, 114, 111, 108, 32,
      99, 104, 97, 114, 97, 99, 116, 101, 114, 115>>

\* python-docx writing a text into a new run: the characters are buffered,
\* a tab becomes a tab element and a line feed or carriage return a break
\* element, each after the buffer is flushed into a text element, and the
\* remaining buffer is flushed at the end.  The flush raises when lxml
\* refuses a character of the buffer, so the run keeps what was written up
\* to the last tab or break before the first such character.  content is
\* the run's text as python-docx reads it back (a break is a line feed).
append_to_run_from_text(text) ==
    LET bad == {k \in 1..Len(text) : ~XmlChar(text[k])}
        first == CHOOSE b \in bad : \A j \in bad : b <= j
        seps == {k \in 1..Len(text) : k < first /\ text[k] \in {9, 10, 13}}
        kept == IF seps = {} THEN 0 ELSE CHOOSE s \in seps : \A j \in seps : j <= s
        stored(n) == [k \in 1..n |-> IF text[k] = 13 THEN 10 ELSE text[k]]
    IN IF bad = {} THEN [content |-> stored(Len(text)), raised |-> FALSE]
       ELSE [content |-> stored(kept), raised |-> TRUE]

Heading(text) == [kind |-> "heading", text |-> text]
Paragraph(text) == [kind |-> "paragraph", text |-> text]
PageBreak == [kind |-> "page_break", text |-> <<>>]

\* doc.add_paragraph(text) on the blocks d: the paragraph is inserted first
\* and then filled, so it is in the document also when filling it raises
add_paragraph(d, text) ==
    LET run == append_to_run_from_text(text)
    IN [doc |-> Append(d, Paragraph(run.content)), raised |-> run.raised]

\* "Converted Document (OCR)" / "Converted Document (Text Extraction)"
HeadingText(strat) ==
    IF strat = "ocr"
    THEN
        <<67, 111, 110, 118, 101, 114, 116, 101, 100, 32, 68, 111, 99, 117,
          109, 101, 110, 116, 32, 40, 79, 67, 82, 41>>
    ELSE
        <<67, 111, 110, 118, 101, 114, 116, 101, 100, 32, 68, 111, 99, 117,
          109, 101, 110, 116, 32, 40, 84, 101, 120, 116, 32, 69, 120, 116,
          114, 97, 99, 116, 105, 111, 110, 41>>

RECURSIVE Decimal(_)
\* str(n) for n >= 0
Decimal(n) ==
    IF n < 10 THEN <<48 + n>> ELSE Decimal(n \div 10) \o <<48 + (n % 10)>>

\* The placeholder for a page without text; i is the zero-based loop index:
\* f"[No text detected on page {i+1}]" / "[No text found on this page]"
NoTextPlaceholder(strat, i) ==
    IF strat = "ocr"
    THEN
        <<91, 78, 111, 32, 116, 101, 120, 116, 32, 100, 101, 116, 101, 99,
          116, 101, 100, 32, 111, 110, 32, 112, 97, 103, 101, 32>>
             \o Decimal(i + 1) \o <<93>>
    ELSE
        <<91, 78, 111, 32, 116, 101, 120, 116, 32, 102, 111, 117, 110, 100,
          32, 111, 110, 32, 116, 104, 105, 115, 32, 112, 97, 103, 101, 93>>

\* Mutant of ErrorText: the exception's message is dropped
ErrorTextNoMessage(strat, msg) ==
    IF strat = "ocr"
    THEN
        <<69, 114, 114, 111, 114, 32, 100, 117, 114, 105, 110, 103, 32, 79,
          67, 82, 32, 112, 114, 111, 99, 101, 115, 115, 105, 110, 103>>
    ELSE
        <<69, 114, 114, 111, 114, 32, 112, 114, 111, 99, 101, 115, 115, 105,
          110, 103, 32, 80, 68, 70>>

\* The text the except branch writes:
\* f"Error during OCR processing: {str(e)}" / f"Error processing PDF: {str(e)}"
ErrorText(strat, msg) ==
    IF strat = "ocr"
    THEN
        <<69, 114, 114, 111, 114, 32, 100, 117, 114, 105, 110, 103, 32, 79,
          67, 82, 32, 112, 114, 111, 99, 101, 115, 115, 105, 110, 103, 58,
          32>>
             \o msg
    ELSE
        <<69, 114, 114, 111, 114, 32, 112, 114, 111, 99, 101, 115, 115, 105,
          110, 103, 32, 80, 68, 70, 58, 32>>
             \o msg

\* if text.strip():
HasText(text) == strip(text) # <<>>

\* The text one loop iteration hands to doc.add_paragraph for page i
ParagraphText(strat, i, text) ==
    IF HasText(text) THEN text ELSE NoTextPlaceholder(strat, i)

\* if page_num < len(pdf_document) - 1  /  if i < len(images) - 1
NeedsPageBreak(i, n) == i < n - 1

\* Mutant of DocSlot: one module-level Document shared by all calls
DocSlotShared(r) == 1

\* doc = Document(): each call builds its own Document object
DocSlot(r) == r

\* The handler's early returns, in order; <<>> when the request passes them all:
\* "No file uploaded", "No file selected", "Please upload a PDF file",
\* "Empty file uploaded"
ValidationError(req) ==
    IF ~req.file.present
    THEN <<78, 111, 32, 102, 105, 108, 101, 32, 117, 112, 108, 111, 97, 100, 101, 100>>
    ELSE IF req.file.filename = <<>>
    THEN <<78, 111, 32, 102, 105, 108, 101, 32, 115, 101, 108, 101, 99, 116, 101, 100>>
    ELSE IF ~IsPdfName(req.file.filename)
    THEN <<80, 108, 101, 97, 115, 101, 32, 117, 112, 108, 111, 97, 100, 32, 97, 32, 80,
          68, 70, 32, 102, 105, 108, 101>>
    ELSE IF req.file.content.size = 0
    THEN <<69, 109, 112, 116, 121, 32, 102, 105, 108, 101, 32, 117, 112, 108, 111, 97,
          100, 101, 100>>
    ELSE <<>>

DownloadName(strat) ==
    IF strat = "ocr" THEN "converted_ocr.docx" ELSE "converted_text.docx"

\* if os.environ.get('RENDER'): tesseract_cmd = '/usr/bin/tesseract'
StartupTesseractCmd(env) == IF env.RENDER THEN "/usr/bin/tesseract" ELSE "tesseract"

NoResponse == [status |-> 0, error |-> <<>>, download_name |-> "", body |-> <<>>]

ErrorResponse(code, msg) ==
    [status |-> code, error |-> msg, download_name |-> "", body |-> <<>>]

FileResponse(name, blocks) ==
    [status |-> 200, error |-> <<>>, download_name |-> name, body |-> blocks]

\* f"Processing failed: {str(e)}"
ProcessingFailed(msg) ==
    <<80, 114, 111, 99, 101, 115, 115, 105, 110, 103, 32, 102, 97, 105, 108,
      101, 100, 58, 32>>
        \o msg

-----------------------------------------------------------------------------
(* State machine *)

InitWith(rs, inputs) ==
    /\ reqs = rs
    /\ environ \in [RENDER : BOOLEAN]
    /\ tesseract_cmd = StartupTesseractCmd(environ)
    /\ request \in [rs -> inputs]
    /\ pc = [r \in rs |-> "received"]
    /\ strategy = [r \in rs |-> "none"]
    /\ doc = [r \in rs |-> <<>>]
    /\ page_num = [r \in rs |-> 0]
    /\ resource = [r \in rs |-> "none"]
    /\ exc = [r \in rs |-> <<>>]
    /\ response = [r \in rs |-> NoResponse]

Init == InitWith({1}, Requests(MaxPages))

Pages(r) == request[r].file.content.pages

\* convert_pdf_to_word, an early return with status 400
RejectRequest(r) ==
    /\ pc[r] = "received"
    /\ ValidationError(request[r]) # <<>>
    /\ response' = [response EXCEPT ![r] = ErrorResponse(400, ValidationError(request[r]))]
    /\ pc' = [pc EXCEPT ![r] = "done"]
    /\ UNCHANGED <<reqs, environ, tesseract_cmd, request, strategy, doc, page_num,
                   resource, exc>>

\* convert_pdf_to_word passes the checks and calls one strategy, which
\* creates its Document and adds the heading
DispatchRequest(r) ==
    /\ pc[r] = "received"
    /\ ValidationError(request[r]) = <<>>
    /\ LET strat == IF UseOcr(FormGet(request[r].mode, "no_ocr")) THEN "ocr" ELSE "text"
       IN /\ strategy' = [strategy EXCEPT ![r] = strat]
          /\ doc' = [doc EXCEPT ![DocSlot(r)] = <<Heading(HeadingText(strat))>>]
    /\ pc' = [pc EXCEPT ![r] = "open"]
    /\ UNCHANGED <<reqs, environ, tesseract_cmd, request, page_num, resource, exc,
                   response>>

\* fitz.open / convert_from_bytes returns
OpenSucceeds(r) ==
    /\ pc[r] = "open"
    /\ request[r].file.content.opens
    /\ resource' = [resource EXCEPT ![r] = "open"]
    /\ page_num' = [page_num EXCEPT ![r] = 0]
    /\ pc' = [pc EXCEPT ![r] = "pages"]
    /\ UNCHANGED <<reqs, environ, tesseract_cmd, request, strategy, doc, exc, response>>

\* The except branch, entered with the document as the try body left it:
\* it adds the error paragraph and the strategy goes on to return; when
\* that add_paragraph itself raises, the exception leaves the strategy
ExceptBranch(r, d, msg) ==
    LET added == add_paragraph(d, ErrorText(strategy[r], msg))
    IN /\ doc' = [doc EXCEPT ![DocSlot(r)] = added.doc]
       /\ pc' = [pc EXCEPT ![r] = IF added.raised THEN "raised" ELSE "serialize"]
       /\ exc' = [exc EXCEPT ![r] = IF added.raised THEN XmlErrorMessage ELSE @]

\* fitz.open / convert_from_bytes raises
OpenFails(r) ==
    /\ pc[r] = "open"
    /\ ~request[r].file.content.opens
    /\ ExceptBranch(r, doc[DocSlot(r)], request[r].file.content.openMsg)
    /\ UNCHANGED <<reqs, environ, tesseract_cmd, request, strategy, page_num, resource,
                   response>>

\* The page the loop is at, and what doc.add_paragraph does with its text
ThisPage(r) == Pages(r)[page_num[r] + 1]

AddThisPage(r) ==
    add_paragraph(doc[DocSlot(r)],
                  ParagraphText(strategy[r], page_num[r], ThisPage(r).text))

\* One loop iteration that completes: paragraph, then the page break if due
PageCompletes(r) ==
    /\ pc[r] = "pages"
    /\ page_num[r] < Len(Pages(r))
    /\ ~ThisPage(r).raises
    /\ ~AddThisPage(r).raised
    /\ doc' = [doc EXCEPT ![DocSlot(r)] =
                 IF NeedsPageBreak(page_num[r], Len(Pages(r)))
                 THEN Append(AddThisPage(r).doc, PageBreak)
                 ELSE AddThisPage(r).doc]
    /\ page_num' = [page_num EXCEPT ![r] = @ + 1]
    /\ UNCHANGED <<reqs, environ, tesseract_cmd, request, pc, strategy, resource, exc,
                   response>>

\* One loop iteration that raises, in a library call before the paragraph
\* is added or in doc.add_paragraph itself: control leaves the loop for the
\* except branch; close() is not reached
PageRaises(r) ==
    /\ pc[r] = "pages"
    /\ page_num[r] < Len(Pages(r))
    /\ IF ThisPage(r).raises
       THEN ExceptBranch(r, doc[DocSlot(r)], ThisPage(r).msg)
       ELSE /\ AddThisPage(r).raised
            /\ ExceptBranch(r, AddThisPage(r).doc, XmlErrorMessage)
    /\ UNCHANGED <<reqs, environ, tesseract_cmd, request, strategy, page_num, resource,
                   response>>

\* The loop is exhausted: convert_without_ocr closes the fitz document;
\* convert_with_ocr has no statement releasing the images
EndOfPages(r) ==
    /\ pc[r] = "pages"
    /\ page_num[r] = Len(Pages(r))
    /\ resource' = [resource EXCEPT ![r] = IF strategy[r] = "text" THEN "closed" ELSE @]
    /\ pc' = [pc EXCEPT ![r] = "serialize"]
    /\ UNCHANGED <<reqs, environ, tesseract_cmd, request, strategy, doc, page_num, exc,
                   response>>

\* save_doc_to_memory and send_file succeed
SendFile(r) ==
    /\ pc[r] = "serialize"
    /\ ~request[r].saveFails
    /\ response' = [response EXCEPT ![r] =
                      FileResponse(DownloadName(strategy[r]), doc[DocSlot(r)])]
    /\ pc' = [pc EXCEPT ![r] = "done"]
    /\ UNCHANGED <<reqs, environ, tesseract_cmd, request, strategy, doc, page_num,
                   resource, exc>>

\* The handler's except branch: an exception left the strategy, or
\* save_doc_to_memory or send_file raises
ReportFailure(r) ==
    /\ \/ pc[r] = "raised"
       \/ pc[r] = "serialize" /\ request[r].saveFails
    /\ response' = [response EXCEPT ![r] =
                      ErrorResponse(500, ProcessingFailed(IF pc[r] = "raised" THEN exc[r]
                                                          ELSE request[r].saveMsg))]
    /\ pc' = [pc EXCEPT ![r] = "done"]
    /\ UNCHANGED <<reqs, environ, tesseract_cmd, request, strategy, doc, page_num,
                   resource, exc>>

Next ==
    \/ \E r \in reqs : RejectRequest(r)
    \/ \E r \in reqs : DispatchRequest(r)
    \/ \E r \in reqs : OpenSucceeds(r)
    \/ \E r \in reqs : OpenFails(r)
    \/ \E r \in reqs : PageCompletes(r)
    \/ \E r \in reqs : PageRaises(r)
    \/ \E r \in reqs : EndOfPages(r)
    \/ \E r \in reqs : SendFile(r)
    \/ \E r \in reqs : ReportFailure(r)

Spec == Init /\ [][Next]_vars

-----------------------------------------------------------------------------
(* The handler and the strategies as functions of one request, run alone *)

RECURSIVE ConvertPages(_, _, _, _)
\* The try body's loop from page index i on, the document being d: the
\* document it leaves, and the exception it raised if it raised
ConvertPages(strat, pages, i, d) ==
    IF i = Len(pages) THEN [doc |-> d, raised |-> FALSE, msg |-> <<>>]
    ELSE IF pages[i + 1].raises
         THEN [doc |-> d, raised |-> TRUE, msg |-> pages[i + 1].msg]
         ELSE LET added == add_paragraph(d, ParagraphText(strat, i, pages[i + 1].text))
              IN IF added.raised
                 THEN [doc |-> added.doc, raised |-> TRUE, msg |-> XmlErrorMessage]
                 ELSE ConvertPages(strat, pages, i + 1,
                                   IF NeedsPageBreak(i, Len(pages))
                                   THEN Append(added.doc, PageBreak)
                                   ELSE added.doc)

\* A strategy: the document it returns, or the exception that leaves it
Convert(strat, content) ==
    LET start == <<Heading(HeadingText(strat))>>
        try == IF content.opens THEN ConvertPages(strat, content.pages, 0, start)
               ELSE [doc |-> start, raised |-> TRUE, msg |-> content.openMsg]
        added == add_paragraph(try.doc, ErrorText(strat, try.msg))
    IN IF ~try.raised THEN [doc |-> try.doc, raised |-> FALSE, msg |-> <<>>]
       ELSE IF added.raised THEN [doc |-> added.doc, raised |-> TRUE, msg |-> XmlErrorMessage]
       ELSE [doc |-> added.doc, raised |-> FALSE, msg |-> <<>>]

convert_without_ocr(content) == Convert("text", content)

convert_with_ocr(content) == Convert("ocr", content)

convert_pdf_to_word(req) ==
    LET ocr == UseOcr(FormGet(req.mode, "no_ocr"))
        out == IF ocr THEN convert_with_ocr(req.file.content)
               ELSE convert_without_ocr(req.file.content)
    IN IF ValidationError(req) # <<>> THEN ErrorResponse(400, ValidationError(req))
       ELSE IF out.raised THEN ErrorResponse(500, ProcessingFailed(out.msg))
       ELSE IF req.saveFails THEN ErrorResponse(500, ProcessingFailed(req.saveMsg))
       ELSE FileResponse(IF ocr THEN "converted_ocr.docx" ELSE "converted_text.docx",
                         out.doc)

-----------------------------------------------------------------------------
(* Two concurrent requests, over a small set of sample uploads *)

\* "a.pdf"
APdf == <<97, 46, 112, 100, 102>>

TextPage(t) == [raises |-> FALSE, text |-> t, msg |-> <<>>]
RaisingPage == [raises |-> TRUE, text |-> <<>>, msg |-> <<98, 97, 100, 32, 112, 97, 103, 101>>]

\* Two documents that do not open, the second with a message holding
\* U+0000; pages "a", " "; pages "b", one that raises, "c"; pages "d", "e\f"
ConcContents ==
    { [size |-> 1, opens |-> FALSE, openMsg |-> <<99, 97, 110, 110, 111, 116, 32, 111,
          112, 101, 110, 32, 98, 114, 111, 107, 101, 110, 32, 100, 111, 99, 117, 109, 101,
          110, 116>>,
       pages |-> <<>>],
      [size |-> 1, opens |-> FALSE, openMsg |-> <<98, 114, 111, 107, 101, 110, 0>>, pages |-> <<>>],
      [size |-> 1, opens |-> TRUE, openMsg |-> <<>>,
       pages |-> <<TextPage(<<97>>), TextPage(<<32>>)>>],
      [size |-> 1, opens |-> TRUE, openMsg |-> <<>>,
       pages |-> <<TextPage(<<98>>), RaisingPage, TextPage(<<99>>)>>],
      [size |-> 1, opens |-> TRUE, openMsg |-> <<>>,
       pages |-> <<TextPage(<<100>>), TextPage(<<101, 12>>)>>] }

ConcRequests ==
    [file : {NoFile} \cup [present : {TRUE}, filename : {APdf}, content : ConcContents],
     mode : {[present |-> FALSE, value |-> ""], [present |-> TRUE, value |-> "ocr"]},
     saveFails : BOOLEAN,
     saveMsg : SaveErrors]

InitConc == InitWith({1, 2}, ConcRequests)

SpecConc == InitConc /\ [][Next]_vars

-----------------------------------------------------------------------------
(* Vocabulary of the properties *)

Ran(r) == strategy[r] # "none"

\* The strategy has returned its Document, or is about to: it has left its
\* try statement and no exception has left the strategy itself
Returned(r) == Ran(r) /\ exc[r] = <<>> /\ pc[r] \in {"serialize", "done"}

BuiltDoc(r) == doc[DocSlot(r)]

IsParagraph(b) == b.kind = "paragraph"
IsPageBreak(b) == b.kind = "page_break"
IsHeading(b) == b.kind = "heading"

Paragraphs(d) == SelectSeq(d, IsParagraph)
PageBreaks(d) == SelectSeq(d, IsPageBreak)
Headings(d) == SelectSeq(d, IsHeading)

AllBlank(t) == \A k \in 1..Len(t) : t[k] \in Whitespace

\* A text as a paragraph holds it: a carriage return reads back as a line feed
Stored(t) == [k \in 1..Len(t) |-> IF t[k] = 13 THEN 10 ELSE t[k]]

StartsWith(t, prefix) == Len(t) >= Len(prefix) /\ SubSeq(t, 1, Len(prefix)) = prefix

\* "[No text found on this page]", or a text starting "[No text detected on page "
IsPlaceholderText(t) ==
    \/ t =
        <<91, 78, 111, 32, 116, 101, 120, 116, 32, 102, 111, 117, 110, 100,
          32, 111, 110, 32, 116, 104, 105, 115, 32, 112, 97, 103, 101, 93>>
    \/ StartsWith(t,
        <<91, 78, 111, 32, 116, 101, 120, 116, 32, 100, 101, 116, 101, 99,
          116, 101, 100, 32, 111, 110, 32, 112, 97, 103, 101, 32>>)

\* The decimal numeral of n occurs in t
Mentions(t, n) ==
    \E k \in 1..Len(t) : SubSeq(t, k, k + Len(Decimal(n)) - 1) = Decimal(n)

RaisingPages(r) == {i \in 1..Len(Pages(r)) : Pages(r)[i].raises}

Opened(r) == request[r].file.content.opens

\* The pages for which the loop has called doc.add_paragraph: none unless a
\* strategy ran; then those whose iteration completed and, once the loop was
\* left at a page whose library calls returned, that page too
PagesWritten(r) ==
    IF /\ Ran(r)
       /\ pc[r] \in {"serialize", "raised", "done"}
       /\ page_num[r] < Len(Pages(r))
       /\ ~Pages(r)[page_num[r] + 1].raises
    THEN page_num[r] + 1
    ELSE page_num[r]

\* C1: a PDF that opens with N >= 1 pages converts, in either mode, to one
\* title block, exactly N paragraph blocks and exactly N-1 page breaks, the
\* i-th paragraph being that of the i-th page.
C1_PageCardinality ==
    \A r \in reqs :
        (Returned(r) /\ Opened(r)) =>
            LET d == BuiltDoc(r)
                n == Len(Pages(r))
            IN /\ Len(Headings(d)) = 1
               /\ IsHeading(d[1])
               /\ Len(Paragraphs(d)) = n
               /\ Len(PageBreaks(d)) = n - 1
               /\ \A i \in 1..n :
                      ~Pages(r)[i].raises =>
                          Paragraphs(d)[i].text =
                              Stored(ParagraphText(strategy[r], i - 1, Pages(r)[i].text))

\* C2: when exactly one page k of an N-page PDF raises, every other page
\* still yields its own paragraph, page k yields the error paragraph at
\* position k, and the paragraph count stays N.
C2_PageFailureIsolated ==
    \A r \in reqs :
        (Returned(r) /\ Opened(r) /\ Cardinality(RaisingPages(r)) = 1) =>
            LET d == BuiltDoc(r)
                n == Len(Pages(r))
            IN /\ Len(Paragraphs(d)) = n
               /\ \A i \in 1..n :
                      Paragraphs(d)[i].text =
                          IF Pages(r)[i].raises
                          THEN Stored(ErrorText(strategy[r], Pages(r)[i].msg))
                          ELSE Stored(ParagraphText(strategy[r], i - 1, Pages(r)[i].text))

\* C3 as claimed: when the page source cannot be loaded, the request ends
\* in a server-fault error response and no document is returned.
C3_OpenFailureIsServerFault ==
    \A r \in reqs :
        (pc[r] = "done" /\ Ran(r) /\ ~Opened(r)) =>
            /\ response[r].status = 500
            /\ response[r].body = <<>>

\* C3 as amended: when the page source cannot be loaded, the strategy itself
\* catches the failure, with no page processed and nothing opened.  If the
\* failure's message is text a paragraph can hold, the strategy returns the
\* title block followed by one paragraph holding "Error during OCR
\* processing: " / "Error processing PDF: " and the message; the handler
\* answers 200 with that document, and 500 with the underlying message only
\* when serialising or sending the document raises.  If the message holds a
\* character XML text cannot, writing the error paragraph raises in turn, the
\* strategy returns nothing, and the handler answers 500 with "Processing
\* failed: " and the XML library's message.
C3_OpenFailureIsParagraph ==
    \A r \in reqs :
        (Ran(r) /\ ~Opened(r) /\ pc[r] \in {"serialize", "raised", "done"}) =>
            LET msg == request[r].file.content.openMsg
                storable == \A k \in 1..Len(msg) :
                                msg[k] \in {9, 10, 13}
                                    \/ (msg[k] >= 32 /\ msg[k] \notin {65534, 65535})
                expected ==
                    IF strategy[r] = "ocr"
                    THEN << [kind |-> "heading", text |->
                        <<67, 111, 110, 118, 101, 114, 116, 101, 100, 32, 68,
                          111, 99, 117, 109, 101, 110, 116, 32, 40, 79, 67,
                          82, 41>>],
                            [kind |-> "paragraph", text |-> Stored(
                        <<69, 114, 114, 111, 114, 32, 100, 117, 114, 105, 110,
                          103, 32, 79, 67, 82, 32, 112, 114, 111, 99, 101,
                          115, 115, 105, 110, 103, 58, 32>>
                                \o msg)] >>
                    ELSE << [kind |-> "heading", text |->
                        <<67, 111, 110, 118, 101, 114, 116, 101, 100, 32, 68,
                          111, 99, 117, 109, 101, 110, 116, 32, 40, 84, 101,
                          120, 116, 32, 69, 120, 116, 114, 97, 99, 116, 105,
                          111, 110, 41>>],
                            [kind |-> "paragraph", text |-> Stored(
                        <<69, 114, 114, 111, 114, 32, 112, 114, 111, 99, 101,
                          115, 115, 105, 110, 103, 32, 80, 68, 70, 58, 32>>
                                \o msg)] >>
            IN /\ page_num[r] = 0
               /\ resource[r] = "none"
               /\ Returned(r) <=> storable
               /\ Returned(r) => BuiltDoc(r) = expected
               /\ pc[r] = "done" =>
                      IF ~storable
                      THEN /\ response[r].status = 500
                           /\ response[r].body = <<>>
                           /\ response[r].error =
                                  <<80, 114, 111, 99, 101, 115, 115, 105, 110,
                                    103, 32, 102, 97, 105, 108, 101, 100, 58,
                                    32, 65, 108, 108, 32, 115, 116, 114, 105,
                                    110, 103, 115, 32, 109, 117, 115, 116, 32,
                                    98, 101, 32, 88, 77, 76, 32, 99, 111, 109,
                                    112, 97, 116, 105, 98, 108, 101, 58, 32,
                                    85, 110, 105, 99, 111, 100, 101, 32, 111,
                                    114, 32, 65, 83, 67, 73, 73, 44, 32, 110,
                                    111, 32, 78, 85, 76, 76, 32, 98, 121, 116,
                                    101, 115, 32, 111, 114, 32, 99, 111, 110,
                                    116, 114, 111, 108, 32, 99, 104, 97, 114,
                                    97, 99, 116, 101, 114, 115>>
                      ELSE IF request[r].saveFails
                      THEN /\ response[r].status = 500
                           /\ response[r].body = <<>>
                           /\ response[r].error =
                                  <<80, 114, 111, 99, 101, 115, 115, 105, 110,
                                    103, 32, 102, 97, 105, 108, 101, 100, 58,
                                    32>>
                                      \o request[r].saveMsg
                      ELSE response[r].status = 200 /\ response[r].body = expected

C3_Witness ==
    \E r \in reqs :
        /\ pc[r] = "done" /\ Ran(r) /\ ~Opened(r)
        /\ response[r].status = 200
        /\ Len(response[r].body) = 2

\* C4: for an accepted request exactly one strategy runs: the OCR strategy
\* if and only if the mode value is exactly "ocr", the text-extraction
\* strategy for every other value and for an omitted mode.
C4_ModeDispatch ==
    \A r \in reqs :
        LET m == request[r].mode
            wantsOcr == m.present /\ m.value = "ocr"
        IN /\ (pc[r] # "received" /\ ~Ran(r)) => ValidationError(request[r]) # <<>>
           /\ Ran(r) =>
                  /\ strategy[r] = (IF wantsOcr THEN "ocr" ELSE "text")
                  /\ IsHeading(BuiltDoc(r)[1])
                  /\ Len(Headings(BuiltDoc(r))) = 1
                  /\ BuiltDoc(r)[1].text =
                         (IF wantsOcr
                          THEN
                        <<67, 111, 110, 118, 101, 114, 116, 101, 100, 32, 68,
                          111, 99, 117, 109, 101, 110, 116, 32, 40, 79, 67,
                          82, 41>>
                          ELSE
                        <<67, 111, 110, 118, 101, 114, 116, 101, 100, 32, 68,
                          111, 99, 117, 109, 101, 110, 116, 32, 40, 84, 101,
                          120, 116, 32, 69, 120, 116, 114, 97, 99, 116, 105,
                          111, 110, 41>>)
           /\ (pc[r] = "done" /\ response[r].status = 200) =>
                  response[r].download_name =
                      (IF wantsOcr THEN "converted_ocr.docx" ELSE "converted_text.docx")

C4_Witness ==
    \E r \in reqs :
        /\ pc[r] = "done" /\ response[r].status = 200
        /\ request[r].mode = [present |-> TRUE, value |-> "OCR"]
        /\ strategy[r] = "text"

\* C5: the paragraph written for a page holds the page's text if and only
\* if the text is not all whitespace; a page whose text is empty or all
\* whitespace yields the placeholder paragraph, never a blank paragraph.
C5_BlankPageGetsPlaceholder ==
    \A r \in reqs :
        Ran(r) =>
            \A i \in 1..PagesWritten(r) :
                LET t == Pages(r)[i].text
                    p == Paragraphs(BuiltDoc(r))[i].text
                IN /\ (p = Stored(t)) <=> ~AllBlank(t)
                   /\ AllBlank(t) => IsPlaceholderText(p)
                   /\ ~AllBlank(p)

\* C6: every handle a conversion opened (the fitz document, the rasterized
\* images) is released before the conversion returns, on every exit path.
C6_ResourcesReleased ==
    \A r \in reqs : Returned(r) => resource[r] # "open"

\* C7: a strategy is invoked only for a request with a file part, a
\* non-empty file name ending in ".pdf" in any letter case, and non-empty
\* bytes; every other request is answered 400 with a message and no
\* strategy is called for it.
C7_BoundaryGating ==
    \A r \in reqs :
        LET f == request[r].file
            n == Len(f.filename)
            acceptable ==
                /\ f.present
                /\ n >= 4
                /\ f.filename[n - 3] = 46
                /\ f.filename[n - 2] \in {112, 80}
                /\ f.filename[n - 1] \in {100, 68}
                /\ f.filename[n] \in {102, 70}
                /\ f.content.size > 0
        IN /\ Ran(r) => acceptable
           /\ (pc[r] = "done" /\ ~acceptable) =>
                  /\ response[r].status = 400
                  /\ response[r].error # <<>>
                  /\ response[r].body = <<>>
                  /\ ~Ran(r)
                  /\ BuiltDoc(r) = <<>>

C7_Witness ==
    \E r \in reqs :
        /\ pc[r] = "done"
        /\ request[r].file.filename = <<97, 112, 100, 102>>
        /\ request[r].file.content.size > 0
        /\ response[r].status = 400

\* C8: in both modes the placeholder written for a page without text names
\* that page's number, so the placeholders of two different empty pages
\* differ.
C8_PlaceholderNamesPage ==
    \A r \in reqs :
        Ran(r) =>
            \A i \in 1..page_num[r] :
                AllBlank(Pages(r)[i].text) =>
                    /\ Mentions(Paragraphs(BuiltDoc(r))[i].text, i)
                    /\ \A j \in 1..page_num[r] :
                           (j # i /\ AllBlank(Pages(r)[j].text)) =>
                               Paragraphs(BuiltDoc(r))[i] # Paragraphs(BuiltDoc(r))[j]

\* C9: with requests interleaved in any order, each request's response is
\* what the handler computes from that request alone, and the recognition
\* engine path keeps the value it was given at startup.
C9_RequestsIndependent ==
    /\ tesseract_cmd = (IF environ.RENDER THEN "/usr/bin/tesseract" ELSE "tesseract")
    /\ \A r \in reqs :
           /\ pc[r] = "done" => response[r] = convert_pdf_to_word(request[r])
           /\ Returned(r) =>
                  BuiltDoc(r) = Convert(strategy[r], request[r].file.content).doc

C9_Witness ==
    /\ reqs = {1, 2}
    /\ pc[1] = "pages" /\ page_num[1] = 1
    /\ pc[2] = "pages" /\ page_num[2] = 1
    /\ strategy[1] = "ocr" /\ strategy[2] = "text"
    /\ request[1].file.content # request[2].file.content

\* C10: in every document a strategy returns the first block is the single
\* title block, every page break stands between two paragraph blocks, the
\* document does not end with a page break, and with at least one paragraph
\* the page breaks number one less than the paragraphs.
C10_BlockStructure ==
    \A r \in reqs :
        Returned(r) =>
            LET d == BuiltDoc(r)
            IN /\ Len(d) >= 1
               /\ IsHeading(d[1])
               /\ Len(Headings(d)) = 1
               /\ ~IsPageBreak(d[Len(d)])
               /\ \A k \in 1..Len(d) :
                      IsPageBreak(d[k]) =>
                          /\ k > 1 /\ IsParagraph(d[k - 1])
                          /\ k < Len(d) /\ IsParagraph(d[k + 1])
               /\ Len(Paragraphs(d)) >= 1 =>
                      Len(PageBreaks(d)) = Len(Paragraphs(d)) - 1

====
